---- MODULE Spec2Model ----
(***************************************************************************)
(* Model of the batch layer of audio_video_batch:                          *)
(*   src/src/batch_processor.rs  BatchProcessor::{find_video_files,        *)
(*       process_batch, process_single_video, process_video_internal,      *)
(*       save_results, generate_batch_summary}                             *)
(*   src/src/frame_analyzer.rs   FrameAnalyzer::{new, load_model,          *)
(*       process_frame}                                                    *)
(*   src/src/audio_processor.rs  extract_audio, transcribe_audio           *)
(*   src/src/synchronizer.rs     synchronize_results                       *)
(*                                                                         *)
(* One run of process_batch is one behaviour.  The file system, the        *)
(* decoder and the backend are the environment: every fallible call picks  *)
(* its Ok / Err result nondeterministically.  Times are in half seconds    *)
(* (10 = 5.0 s), wall-clock durations are not modelled.                    *)
(***************************************************************************)
EXTENDS Integers, Sequences, FiniteSets, TLC

(* ------------------------------ bounds -------------------------------- *)
\* largest number of entries in the input directory
MaxEntries == 2
\* largest number of pictures the decoder yields for one asset
MaxFrames == 2

(* ------------------------- file names and paths ----------------------- *)
\* A file name is a sequence of characters; a character is a 1-char string.
Dot == "."

\* byte value of the characters that occur in the modelled names
Code(c) ==
    CASE c = "." -> 46 [] c = "4" -> 52
      [] c = "A" -> 65 [] c = "I" -> 73 [] c = "V" -> 86
      [] c = "a" -> 97 [] c = "b" -> 98 [] c = "c" -> 99 [] c = "d" -> 100
      [] c = "e" -> 101 [] c = "i" -> 105 [] c = "m" -> 109 [] c = "p" -> 112
      [] c = "t" -> 116 [] c = "v" -> 118 [] c = "x" -> 120

\* char::to_lowercase on the modelled characters
LowerChar(c) ==
    CASE c = "A" -> "a" [] c = "I" -> "i" [] c = "V" -> "v"
      [] c = "C" -> "c" [] c = "K" -> "k" [] c = "M" -> "m"
      [] c = "O" -> "o" [] c = "P" -> "p" [] c = "N" -> "n"
      [] c = "T" -> "t" [] c = "X" -> "x" [] OTHER -> c

to_lowercase(s) == [n \in 1..Len(s) |-> LowerChar(s[n])]

\* position of the last '.' of a name, 0 when there is none
LastDot(name) ==
    IF \E n \in 1..Len(name) : name[n] = Dot
    THEN CHOOSE n \in 1..Len(name) :
             /\ name[n] = Dot
             /\ \A m \in (n+1)..Len(name) : name[m] # Dot
    ELSE 0

\* Option<..> values
None == [some |-> FALSE, val |-> <<>>]
Some(v) == [some |-> TRUE, val |-> v]

\* Path::extension: None without an embedded '.', or when the only '.'
\* is the first character; else the part after the last '.'
extension(name) ==
    LET dot == LastDot(name)
    IN IF dot <= 1 THEN None
       ELSE Some(SubSeq(name, dot + 1, Len(name)))

\* Path::file_stem: the whole name in the cases where extension is None,
\* else the part before the last '.'
file_stem(name) ==
    LET dot == LastDot(name)
    IN IF dot <= 1 THEN name
       ELSE SubSeq(name, 1, dot - 1)

\* Ord on paths of one directory: bytewise lexicographic on the file name
RECURSIVE PathLess(_, _)
PathLess(p, q) ==
    IF q = <<>> THEN FALSE
    ELSE IF p = <<>> THEN TRUE
    ELSE IF Code(Head(p)) # Code(Head(q)) THEN Code(Head(p)) < Code(Head(q))
    ELSE PathLess(Tail(p), Tail(q))

\* Vec::sort of a set of distinct paths
SortPaths(S) ==
    CHOOSE s \in [1..Cardinality(S) -> S] :
        /\ \A a, b \in 1..Cardinality(S) : a < b => PathLess(s[a], s[b])

\* BatchConfig::default().video_extensions (the first two entries; the
\* other four behave alike)
video_extensions == << <<"m","p","4">>, <<"a","v","i">> >>

Contains(seq, x) == \E n \in 1..Len(seq) : seq[n] = x

\* the directory entries the input directory may hold
EntryUniverse ==
    { [name |-> <<"a",".","m","p","4">>, is_file |-> TRUE],
      [name |-> <<"a",".","A","V","I">>, is_file |-> TRUE],
      [name |-> <<"b",".","m","p","4">>, is_file |-> TRUE],
      [name |-> <<"c",".","t","x","t">>, is_file |-> TRUE],
      [name |-> <<"d">>,                 is_file |-> TRUE],
      [name |-> <<"e",".","m","p","4">>, is_file |-> FALSE] }

Listings == { L \in SUBSET EntryUniverse : Cardinality(L) <= MaxEntries }

\* the loop body of find_video_files for an allow-list: the entries it
\* pushes
IsVideoIn(exts, e) ==
    /\ e.is_file
    /\ extension(e.name).some
    /\ Contains(exts, to_lowercase(extension(e.name).val))

\* the same for the allow-list of BatchConfig::default()
IsVideo(e) == IsVideoIn(video_extensions, e)

\* the orders in which read_dir may yield the entries of a directory
Orders(L) ==
    { o \in [1..Cardinality(L) -> L] :
        \A a, b \in 1..Cardinality(L) : a # b => o[a] # o[b] }

\* video_files after the loop of find_video_files: the pushed paths in the
\* order read_dir yielded them
RECURSIVE pushed(_, _)
pushed(exts, order) ==
    IF order = <<>> THEN <<>>
    ELSE IF IsVideoIn(exts, Head(order))
         THEN << Head(order).name >> \o pushed(exts, Tail(order))
         ELSE pushed(exts, Tail(order))

\* video_files.sort() under a plausible slip: the call is missing
sort_skipped(v) == v

\* video_files.sort()
sort(v) == SortPaths({ v[n] : n \in 1..Len(v) })

\* find_video_files when the directory can be read
found(exts, order) == sort(pushed(exts, order))

\* output paths of process_single_video, relative to config.output_dir
video_output_dir(video_path) == << file_stem(video_path) >>
frames_dir(video_path) == << file_stem(video_path), "frames" >>
audio_path(video_path) == << file_stem(video_path), "audio.aac" >>
results_file(video_path) == << file_stem(video_path), "results.json" >>

(* ------------------------------ stages -------------------------------- *)
\* presentation timestamps the decoder may report, in half seconds
TimeStamps == {10, 24}

TimestampSeqs == UNION { [1..n -> TimeStamps] : n \in 0..MaxFrames }

\* transcribe_audio: the two fixed spans (0-5 s, 5-10 s)
TranscribedSpans ==
    << [start_time |-> 0, end_time |-> 10, text |-> "Hello"],
       [start_time |-> 10, end_time |-> 20, text |-> "This demonstrates"] >>

\* the detections of one frame, as FrameResult::from lays them out
FrameResultOf(ts) == [timestamp |-> ts, objects |-> << "object" >>]

\* FindSpan under a plausible slip: the end of a span is exclusive
FindSpanExclusive(spans, ts) ==
    IF \E n \in 1..Len(spans) :
           spans[n].start_time <= ts /\ ts < spans[n].end_time
    THEN Some(spans[CHOOSE n \in 1..Len(spans) :
                 /\ spans[n].start_time <= ts /\ ts < spans[n].end_time
                 /\ \A m \in 1..(n-1) :
                       ~(spans[m].start_time <= ts /\ ts < spans[m].end_time)].text)
    ELSE None

\* FindSpan under a plausible slip: the last span containing the
\* timestamp wins
FindSpanLast(spans, ts) ==
    IF \E n \in 1..Len(spans) :
           spans[n].start_time <= ts /\ ts <= spans[n].end_time
    THEN Some(spans[CHOOSE n \in 1..Len(spans) :
                 /\ spans[n].start_time <= ts /\ ts <= spans[n].end_time
                 /\ \A m \in (n+1)..Len(spans) :
                       ~(spans[m].start_time <= ts /\ ts <= spans[m].end_time)].text)
    ELSE None

\* synchronizer.rs: the first span containing the timestamp, if any
FindSpan(spans, ts) ==
    IF \E n \in 1..Len(spans) :
           spans[n].start_time <= ts /\ ts <= spans[n].end_time
    THEN Some(spans[CHOOSE n \in 1..Len(spans) :
                 /\ spans[n].start_time <= ts /\ ts <= spans[n].end_time
                 /\ \A m \in 1..(n-1) :
                       ~(spans[m].start_time <= ts /\ ts <= spans[m].end_time)].text)
    ELSE None

\* synchronize_results under a plausible slip: a pointer sweeps the spans
\* once and never moves back, as if the frames came in ascending order
RECURSIVE Sweep(_, _, _)
Sweep(frames, spans, ptr) ==
    IF frames = <<>> THEN <<>>
    ELSE LET ts == Head(frames).timestamp
             past == { n \in ptr..Len(spans) : spans[n].end_time >= ts }
             at == IF past = {} THEN Len(spans) + 1
                   ELSE CHOOSE n \in past : \A m \in past : n <= m
             text == IF at <= Len(spans) /\ spans[at].start_time <= ts
                     THEN Some(spans[at].text) ELSE None
         IN << [timestamp |-> ts, video_objects |-> Head(frames).objects,
                audio_text |-> text] >> \o Sweep(Tail(frames), spans, at)

synchronize_sweep(frames, spans) == Sweep(frames, spans, 1)

\* synchronizer.rs: one record per frame, in the order of the frames
synchronize_results(frames, spans) ==
    [n \in 1..Len(frames) |->
        [timestamp |-> frames[n].timestamp,
         video_objects |-> frames[n].objects,
         audio_text |-> FindSpan(spans, frames[n].timestamp)]]

CountSome(recs) == Cardinality({ n \in 1..Len(recs) : recs[n].audio_text.some })

(* ------------------------------- state -------------------------------- *)
VARIABLES
    input_dir,      \* config.input_dir on disk: "missing", "unreadable", "ok"
    listing,        \* the entries read_dir yields
    pc,             \* the statement of process_batch that runs next
    video_files,    \* find_video_files' result
    cur,            \* 1-based position of the loop of process_batch
    stage,          \* per asset: the last stage it completed
    timestamps,     \* process_video_internal: extract_frames' result
    k,              \* process_video_internal: the enumerate index
    frame_results,  \* process_video_internal: frame_results
    audio_results,  \* process_video_internal: audio_results
    synchronized,   \* process_single_video: synchronized_results
    results,        \* process_batch: results
    successful,     \* process_batch: successful
    failed,         \* process_batch: failed
    load_calls,     \* calls of MLBackend::load_model so far
    detect_calls,   \* calls of MLBackend::process_frame so far
    model_loaded,   \* the backend holds a loaded model
    touched,        \* <<asset position, output path>> pairs created or written
    frame_files,    \* <<stem, index>> of the frame_NNNN.png files on disk
    result_doc,     \* per asset: what its save_results left of results.json
    summary,        \* batch_summary.txt
    ret,            \* what process_batch returned
    call,           \* a function called on its own: its name and arguments
    returned        \* what that function returned

batch_vars == << input_dir, listing, pc, video_files, cur, stage, timestamps,
                 k, frame_results, audio_results, synchronized, results,
                 successful, failed, load_calls, detect_calls, model_loaded,
                 touched, frame_files, result_doc, summary, ret >>

fn_vars == << call, returned >>

vars == << batch_vars, fn_vars >>

asset_vars == << timestamps, k, frame_results, audio_results, synchronized >>
env_vars == << input_dir, listing >>

NoReturn == [kind |-> "none", total_videos |-> 0, successful |-> 0,
             failed |-> 0, results |-> <<>>, error |-> ""]

\* Ok(BatchResults { .. })
OkReturn(total, s, f, rs) ==
    [kind |-> "Ok", total_videos |-> total, successful |-> s,
     failed |-> f, results |-> rs, error |-> ""]

\* Err(e)
ErrReturn(e) == [kind |-> "Err", total_videos |-> 0, successful |-> 0,
                 failed |-> 0, results |-> <<>>, error |-> e]

NoSummary == [file |-> "none", total |-> 0, successful |-> 0, failed |-> 0]

CountSuccess(rs, b) == Cardinality({ n \in 1..Len(rs) : rs[n].success = b })

\* the text generate_batch_summary writes: its three counts
SummaryOf(rs) ==
    [file |-> "complete", total |-> Len(rs),
     successful |-> CountSuccess(rs, TRUE), failed |-> CountSuccess(rs, FALSE)]

\* SuccessResult under a plausible slip: every record counts as an audio
\* segment
SuccessResultCountsAll(path, recs) ==
    [video_path |-> path, frame_count |-> Len(recs),
     audio_segments |-> Len(recs), synchronized_results |-> recs,
     success |-> TRUE, error_message |-> None]

\* the Ok arm of process_single_video
SuccessResult(path, recs) ==
    [video_path |-> path, frame_count |-> Len(recs),
     audio_segments |-> CountSome(recs), synchronized_results |-> recs,
     success |-> TRUE, error_message |-> None]

\* FailedResult under a plausible slip: the error message is dropped
FailedResultNoMessage(path, e) ==
    [video_path |-> path, frame_count |-> 0, audio_segments |-> 0,
     synchronized_results |-> <<>>, success |-> FALSE,
     error_message |-> None]

\* the Err arm of process_single_video
FailedResult(path, e) ==
    [video_path |-> path, frame_count |-> 0, audio_segments |-> 0,
     synchronized_results |-> <<>>, success |-> FALSE,
     error_message |-> Some(e)]

\* Tally under a plausible slip: a failed result is not counted
TallyDropFailed(result, s, f) ==
    IF result.success THEN << s + 1, f >> ELSE << s, f >>

\* process_batch: the counters after one result
Tally(result, s, f) ==
    IF result.success THEN << s + 1, f >> ELSE << s, f + 1 >>

\* no function is called on its own
NoCall == [fn |-> "none"]
NotReturned == [done |-> FALSE]

\* process_batch before its first statement
BatchStart ==
    /\ pc = "create_output_dir"
    /\ video_files = <<>>
    /\ cur = 0
    /\ stage = <<>>
    /\ timestamps = <<>>
    /\ k = 0
    /\ frame_results = <<>>
    /\ audio_results = <<>>
    /\ synchronized = <<>>
    /\ results = <<>>
    /\ successful = 0
    /\ failed = 0
    /\ load_calls = 0
    /\ detect_calls = 0
    /\ model_loaded = FALSE
    /\ touched = {}
    /\ frame_files = {}
    /\ result_doc = <<>>
    /\ summary = NoSummary
    /\ ret = NoReturn

Init ==
    /\ input_dir \in {"missing", "unreadable", "ok"}
    /\ listing \in Listings
    /\ (input_dir = "missing" => listing = {})
    /\ BatchStart
    /\ call = NoCall
    /\ returned = NotReturned

(* ------------------------- process_batch: head ------------------------ *)
\* a `?` of process_batch: the error leaves the function
Return(r) ==
    /\ pc' = "returned"
    /\ ret' = r

\* fs::create_dir_all(&self.config.output_dir)?
CreateOutputDir ==
    /\ pc = "create_output_dir"
    /\ \/ /\ pc' = "find_video_files"
          /\ ret' = ret
       \/ Return(ErrReturn("create_dir_all"))
    /\ UNCHANGED << env_vars, fn_vars, model_loaded, asset_vars, video_files, cur, stage, results,
                    successful, failed, load_calls, detect_calls, touched,
                    frame_files, result_doc, summary >>

\* the Vec find_video_files builds and sorts when read_dir succeeds and
\* yields the entries in the given order
FoundFiles(order) == found(video_extensions, order)

\* find_video_files under a plausible slip: a directory that cannot be read
\* counts as an empty one
find_video_files_lenient(order) ==
    IF input_dir = "ok"
    THEN [ok |-> TRUE, files |-> FoundFiles(order), error |-> ""]
    ELSE [ok |-> TRUE, files |-> <<>>, error |-> ""]

\* find_video_files: Err for a missing directory and for a failing
\* read_dir, else Ok(the sorted video files)
find_video_files(order) ==
    IF input_dir = "missing"
    THEN [ok |-> FALSE, files |-> <<>>, error |-> "Input directory does not exist"]
    ELSE IF input_dir = "unreadable"
    THEN [ok |-> FALSE, files |-> <<>>, error |-> "read_dir"]
    ELSE [ok |-> TRUE, files |-> FoundFiles(order), error |-> ""]

\* let video_files = self.find_video_files()?; and the empty-batch return
FindVideoFiles ==
    /\ pc = "find_video_files"
    /\ \E order \in Orders(listing) :
         IF ~find_video_files(order).ok
         THEN /\ Return(ErrReturn(find_video_files(order).error))
              /\ UNCHANGED << video_files, stage, result_doc >>
         ELSE /\ video_files' = find_video_files(order).files
              /\ stage' = [n \in 1..Len(find_video_files(order).files) |-> "Discovered"]
              /\ result_doc' = [n \in 1..Len(find_video_files(order).files) |-> "none"]
              /\ IF find_video_files(order).files = <<>>
                 THEN Return(OkReturn(0, 0, 0, <<>>))
                 ELSE /\ pc' = "load_model"
                      /\ ret' = ret
    /\ UNCHANGED << env_vars, fn_vars, model_loaded, asset_vars, cur, results,
                    successful, failed, load_calls, detect_calls, touched,
                    frame_files, summary >>

\* LoadModel under a plausible slip: the analyzer is built but load_model
\* is never called
LoadModelSkipped ==
    /\ pc = "load_model"
    /\ pc' = "create_dirs"
    /\ cur' = 1
    /\ UNCHANGED << env_vars, fn_vars, asset_vars, video_files, stage, results,
                    successful, failed, load_calls, detect_calls,
                    model_loaded, touched, frame_files, result_doc, summary,
                    ret >>

\* LoadModel under a plausible slip: load_model's result is dropped
LoadModelIgnoresError ==
    /\ pc = "load_model"
    /\ load_calls' = load_calls + 1
    /\ model_loaded' \in BOOLEAN
    /\ pc' = "create_dirs"
    /\ cur' = 1
    /\ UNCHANGED << env_vars, fn_vars, asset_vars, video_files, stage, results,
                    successful, failed, detect_calls, touched, frame_files,
                    result_doc, summary, ret >>

\* FrameAnalyzer::new("mock") and analyzer.load_model(None)
LoadModel ==
    /\ pc = "load_model"
    /\ load_calls' = load_calls + 1
    /\ \/ /\ model_loaded' = TRUE
          /\ pc' = "create_dirs"
          /\ cur' = 1
          /\ ret' = ret
       \/ /\ model_loaded' = FALSE
          /\ Return(ErrReturn("Failed to load ML model"))
          /\ cur' = cur
    /\ UNCHANGED << env_vars, fn_vars, asset_vars, video_files, stage, results,
                    successful, failed, detect_calls, touched, frame_files,
                    result_doc, summary >>

(* ---------------------- process_single_video -------------------------- *)
Stem == file_stem(video_files[cur])

\* the end of one iteration of the loop of process_batch: the counters, the
\* push, and the loop's next position
Finish(result, reached) ==
    /\ results' = Append(results, result)
    /\ successful' = Tally(result, successful, failed)[1]
    /\ failed' = Tally(result, successful, failed)[2]
    /\ stage' = [stage EXCEPT ![cur] = reached]
    /\ IF cur < Len(video_files)
       THEN /\ cur' = cur + 1
            /\ pc' = "create_dirs"
       ELSE /\ cur' = cur
            /\ pc' = "batch_summary"
    /\ timestamps' = <<>>
    /\ k' = 0
    /\ frame_results' = <<>>
    /\ audio_results' = <<>>
    /\ synchronized' = <<>>
    /\ ret' = ret

\* OnAssetError under a plausible slip: the error is propagated with `?`
\* out of process_batch instead of being matched
OnAssetErrorAborts(e) ==
    /\ Return(ErrReturn(e))
    /\ UNCHANGED << results, successful, failed, stage, cur, asset_vars >>

\* OnAssetError under a plausible slip: the failed asset is tried again
OnAssetErrorRetries(e) ==
    /\ pc' = "create_dirs"
    /\ stage' = [stage EXCEPT ![cur] = "Discovered"]
    /\ timestamps' = <<>>
    /\ k' = 0
    /\ frame_results' = <<>>
    /\ audio_results' = <<>>
    /\ synchronized' = <<>>
    /\ UNCHANGED << results, successful, failed, cur, ret >>

\* process_video_internal returned Err(e): the Err arm of the match
OnAssetError(e) == Finish(FailedResult(video_files[cur], e), "PersistedFailed")

\* a step of process_video_internal completed; the next one follows
Advance(next_pc, reached) ==
    /\ pc' = next_pc
    /\ stage' = [stage EXCEPT ![cur] = reached]
    /\ UNCHANGED << cur, results, successful, failed, ret >>

\* fs::create_dir_all(frames_dir)?; fs::create_dir_all(audio_path.parent())?
CreateDirs ==
    /\ pc = "create_dirs"
    /\ \/ /\ Advance("extract_frames", "Discovered")
          /\ touched' = touched \cup { << cur, video_output_dir(video_files[cur]) >>,
                                       << cur, frames_dir(video_files[cur]) >> }
          /\ UNCHANGED asset_vars
       \/ /\ OnAssetError("create_dir_all frames")
          /\ touched' = touched
    /\ UNCHANGED << env_vars, fn_vars, model_loaded, video_files, load_calls, detect_calls,
                    frame_files, result_doc, summary >>

\* frame_files_written under a plausible slip: frame_index is never
\* incremented, so every picture overwrites frame_0000.png
frame_files_stuck(stem, n) == { << stem, i >> : i \in 0..(n - 1) } \cap { << stem, 0 >> }

\* the files frame_0000.png .. frame_{n-1}.png that extract_frames has
\* written after n pictures
frame_files_written(stem, n) == { << stem, i >> : i \in 0..(n - 1) }

\* extract_frames(video_path, frames_dir): Ok(timestamps) with one frame
\* file per timestamp, or Err after some frame files were written
ExtractFrames ==
    /\ pc = "extract_frames"
    /\ \/ \E ts \in TimestampSeqs :
            /\ Advance("process_frames", "FramesExtracted")
            /\ timestamps' = ts
            /\ k' = 0
            /\ frame_results' = <<>>
            /\ frame_files' = frame_files \cup frame_files_written(Stem, Len(ts))
            /\ touched' = touched \cup
                 (IF ts = <<>> THEN {} ELSE { << cur, frames_dir(video_files[cur]) >> })
            /\ UNCHANGED << audio_results, synchronized >>
       \/ \E written \in 0..MaxFrames :
            /\ OnAssetError("Frame extraction failed")
            /\ frame_files' = frame_files \cup frame_files_written(Stem, written)
            /\ touched' = touched \cup
                 (IF written = 0 THEN {} ELSE { << cur, frames_dir(video_files[cur]) >> })
    /\ UNCHANGED << env_vars, fn_vars, model_loaded, video_files, load_calls, detect_calls,
                    result_doc, summary >>

\* one iteration of the loop over timestamps: analyzer.process_frame on the
\* frame file when it exists
ProcessFrame ==
    /\ pc = "process_frames"
    /\ k < Len(timestamps)
    /\ IF << Stem, k >> \in frame_files
       THEN /\ detect_calls' = detect_calls + 1
            /\ \/ /\ frame_results' =
                        Append(frame_results, FrameResultOf(timestamps[k + 1]))
                  /\ k' = k + 1
                  /\ UNCHANGED << pc, stage, cur, results, successful, failed,
                                  ret, timestamps, audio_results, synchronized >>
               \/ OnAssetError("Frame processing failed")
       ELSE /\ k' = k + 1
            /\ UNCHANGED << detect_calls, pc, stage, cur, results, successful,
                            failed, ret, timestamps, frame_results,
                            audio_results, synchronized >>
    /\ UNCHANGED << env_vars, fn_vars, model_loaded, video_files, load_calls, touched, frame_files,
                    result_doc, summary >>

\* FramesDone under a plausible slip: the loop is left after any number of
\* frames
FramesDoneEarly ==
    /\ pc = "process_frames"
    /\ k <= Len(timestamps)
    /\ Advance("extract_audio", "Detected")
    /\ UNCHANGED << env_vars, fn_vars, model_loaded, asset_vars, video_files,
                    load_calls, detect_calls, touched, frame_files,
                    result_doc, summary >>

\* the loop over timestamps is exhausted
FramesDone ==
    /\ pc = "process_frames"
    /\ k = Len(timestamps)
    /\ Advance("extract_audio", "Detected")
    /\ UNCHANGED << env_vars, fn_vars, model_loaded, asset_vars, video_files, load_calls,
                    detect_calls, touched, frame_files, result_doc, summary >>

\* extract_audio(video_path, audio_path)
ExtractAudio ==
    /\ pc = "extract_audio"
    /\ \/ /\ Advance("transcribe_audio", "AudioExtracted")
          /\ touched' = touched \cup { << cur, audio_path(video_files[cur]) >> }
          /\ UNCHANGED asset_vars
       \/ \E created \in BOOLEAN :
            /\ OnAssetError("Audio extraction failed")
            /\ touched' = touched \cup
                 (IF created THEN { << cur, audio_path(video_files[cur]) >> } ELSE {})
    /\ UNCHANGED << env_vars, fn_vars, model_loaded, video_files, load_calls, detect_calls,
                    frame_files, result_doc, summary >>

\* transcribe_audio(audio_path)?: the stub always returns Ok
TranscribeAudio ==
    /\ pc = "transcribe_audio"
    /\ Advance("synchronize", "Transcribed")
    /\ audio_results' = TranscribedSpans
    /\ UNCHANGED << env_vars, fn_vars, model_loaded, timestamps, k, frame_results, synchronized,
                    video_files, load_calls, detect_calls, touched,
                    frame_files, result_doc, summary >>

\* synchronize_results(frame_results, audio_results)
Synchronize ==
    /\ pc = "synchronize"
    /\ Advance("save_results", "Synchronized")
    /\ synchronized' = synchronize_results(frame_results, audio_results)
    /\ UNCHANGED << env_vars, fn_vars, model_loaded, timestamps, k, frame_results, audio_results,
                    video_files, load_calls, detect_calls, touched,
                    frame_files, result_doc, summary >>

\* OnSaved under a plausible slip: a failed save_results is propagated as
\* the asset's error
OnSavedStrict(doc) ==
    IF doc = "complete"
    THEN Finish(SuccessResult(video_files[cur], synchronized), "PersistedSuccess")
    ELSE Finish(FailedResult(video_files[cur], "results.json"), "PersistedFailed")

\* what process_single_video does with save_results' result: a warning on
\* Err, and the same VideoProcessingResult either way
OnSaved(doc) == Finish(SuccessResult(video_files[cur], synchronized), "PersistedSuccess")

\* save_results and the rest of the Ok arm; results.json ends complete, cut
\* short by a failed write, or absent when File::create failed
SaveResults ==
    /\ pc = "save_results"
    /\ \E doc \in {"complete", "partial", "absent"} :
          /\ result_doc' = [result_doc EXCEPT ![cur] = doc]
          /\ touched' = touched \cup
               (IF doc = "absent" THEN {} ELSE { << cur, results_file(video_files[cur]) >> })
          /\ OnSaved(doc)
    /\ UNCHANGED << env_vars, fn_vars, model_loaded, video_files, load_calls, detect_calls,
                    frame_files, summary >>

(* ------------------------- process_batch: tail ------------------------ *)
\* what process_batch does with generate_batch_summary's result
OnSummary(file) ==
    IF file = "complete"
    THEN Return(OkReturn(Len(video_files), successful, failed, results))
    ELSE Return(ErrReturn("batch_summary.txt"))

\* self.generate_batch_summary(&results, total_processing_time)?; and the
\* final Ok(BatchResults { .. })
GenerateBatchSummary ==
    /\ pc = "batch_summary"
    /\ \E file \in {"complete", "partial", "absent"} :
          /\ summary' = [SummaryOf(results) EXCEPT !.file = file]
          /\ OnSummary(file)
    /\ UNCHANGED << env_vars, fn_vars, model_loaded, asset_vars, video_files, cur, stage, results,
                    successful, failed, load_calls, detect_calls, touched,
                    frame_files, result_doc >>

Next ==
    \/ CreateOutputDir
    \/ FindVideoFiles
    \/ LoadModel
    \/ CreateDirs
    \/ ExtractFrames
    \/ ProcessFrame
    \/ FramesDone
    \/ ExtractAudio
    \/ TranscribeAudio
    \/ Synchronize
    \/ SaveResults
    \/ GenerateBatchSummary

Spec == Init /\ [][Next]_vars

TypeOK ==
    /\ pc \in {"create_output_dir", "find_video_files", "load_model",
               "create_dirs", "extract_frames", "process_frames",
               "extract_audio", "transcribe_audio", "synchronize",
               "save_results", "batch_summary", "returned"}
    /\ cur \in 0..Len(video_files)
    /\ Len(stage) = Len(video_files)
    /\ ret.kind \in {"none", "Ok", "Err"}
    /\ (ret.kind # "none") <=> (pc = "returned")

(* ------------------------------- claims ------------------------------- *)
\* the number N of assets discovery yields for the directory
Discovered == Cardinality({ e \in listing : IsVideo(e) })

Terminal == {"PersistedSuccess", "PersistedFailed"}

AssetPcs == {"create_dirs", "extract_frames", "process_frames",
             "extract_audio", "transcribe_audio", "synchronize",
             "save_results"}

\* C1: a returned report holds exactly N outcomes, one per discovered asset,
\* and successful + failed = total = N, the counters being the numbers of
\* successful and failed outcomes; for N = 0 the report is all zeros and
\* discovery of an empty directory is no error.
C1_ReportCounts ==
    /\ ret.kind = "Ok" =>
          /\ Len(ret.results) = Discovered
          /\ ret.total_videos = Discovered
          /\ ret.successful + ret.failed = ret.total_videos
          /\ ret.successful = CountSuccess(ret.results, TRUE)
          /\ ret.failed = CountSuccess(ret.results, FALSE)
    /\ (pc = "returned" /\ input_dir = "ok" /\ Discovered = 0) =>
          \/ ret = OkReturn(0, 0, 0, <<>>)
          \/ ret = ErrReturn("create_dir_all")

\* a report over two assets of which one failed
C1_Witness ==
    /\ ret.kind = "Ok"
    /\ ret.total_videos = 2
    /\ ret.successful = 1
    /\ ret.failed = 1

\* the errors process_batch itself returns
FatalErrors == {"create_dir_all", "Input directory does not exist", "read_dir",
                "Failed to load ML model", "batch_summary.txt"}

\* C2: a failing per-asset step becomes that asset's outcome (success =
\* false, error present), is never the error process_batch returns, and the
\* loop goes on to every later asset.
C2_FailureIsolated ==
    /\ ret.kind = "Err" => ret.error \in FatalErrors
    /\ \A n \in 1..Len(stage) :
          stage[n] = "PersistedFailed" <=>
             /\ n <= Len(results)
             /\ ~results[n].success
             /\ results[n].error_message.some
             /\ results[n].video_path = video_files[n]
    /\ pc \in AssetPcs => cur = Len(results) + 1
    /\ pc = "batch_summary" => Len(results) = Len(video_files)
    /\ ret.kind = "Ok" => Len(ret.results) = Len(video_files)
    /\ \A n \in 1..Len(results) : stage[n] \in Terminal

\* the first of two assets failed and the second was still processed
C2_Witness ==
    /\ ret.kind = "Ok"
    /\ Len(ret.results) = 2
    /\ ~ret.results[1].success
    /\ ret.results[1].error_message = Some("Frame processing failed")
    /\ ret.results[2].success

\* the stage order of one asset
StageStep ==
    { << "Discovered", "FramesExtracted" >>, << "FramesExtracted", "Detected" >>,
      << "Detected", "AudioExtracted" >>, << "AudioExtracted", "Transcribed" >>,
      << "Transcribed", "Synchronized" >>, << "Synchronized", "PersistedSuccess" >> }
    \cup { << st, "PersistedFailed" >> :
             st \in {"Discovered", "FramesExtracted", "Detected",
                     "AudioExtracted", "Transcribed", "Synchronized"} }

\* the stage an asset has completed when a statement of its pipeline runs
StageAt(p) ==
    CASE p = "create_dirs" -> "Discovered"
      [] p = "extract_frames" -> "Discovered"
      [] p = "process_frames" -> "FramesExtracted"
      [] p = "extract_audio" -> "Detected"
      [] p = "transcribe_audio" -> "AudioExtracted"
      [] p = "synchronize" -> "Transcribed"
      [] p = "save_results" -> "Synchronized"

StageOrder ==
    /\ \A n \in 1..Len(stage) :
          /\ (n < cur => stage[n] \in Terminal)
          /\ (n > cur => stage[n] = "Discovered")
    /\ pc \in AssetPcs => stage[cur] = StageAt(pc)
    /\ pc \in {"extract_audio", "transcribe_audio", "synchronize", "save_results"}
          => /\ k = Len(timestamps)
             /\ Len(frame_results) = Len(timestamps)
    /\ pc \in {"synchronize", "save_results"} => audio_results = TranscribedSpans
    /\ pc = "save_results" => Len(synchronized) = Len(frame_results)

StageMoves ==
    \A n \in 1..Len(stage) :
        (Len(stage') = Len(stage) /\ stage'[n] # stage[n])
            => << stage[n], stage'[n] >> \in StageStep

\* C3: an asset moves one stage at a time in the order Discovered,
\* FramesExtracted, Detected, AudioExtracted, Transcribed, Synchronized,
\* PersistedSuccess, or from a stage before the end to PersistedFailed; a
\* stage runs only when the previous one has completed for all of the
\* asset's frames, and the two Persisted stages are never left.
C3_StageMachine == [](StageOrder) /\ [][StageMoves]_vars

\* one asset went through every stage and another one failed on the way
C3_Witness ==
    /\ Len(stage) = 2
    /\ stage[1] = "PersistedSuccess"
    /\ results[1].frame_count = 2
    /\ stage[2] = "PersistedFailed"

\* C4: two distinct discovered assets never create or write the same output
\* path.
C4_DisjointOutputs ==
    \A a, b \in 1..Len(video_files) :
        a # b => \A t \in touched : t[1] = a => << b, t[2] >> \notin touched

\* C5 as stated, for the runs that return a report (its most favourable
\* reading): load was called exactly once, before any detect.
C5_LoadOncePerRun ==
    /\ ret.kind = "Ok" => load_calls = 1
    /\ detect_calls > 0 => (load_calls = 1 /\ model_loaded)

\* C5: load is called at most once in a batch run: exactly once, and
\* successfully before the first detect, in every run that discovers at
\* least one asset, and not at all when discovery fails or finds no asset;
\* no asset of the loop reloads it.
C5_LoadOnceWhenAssets ==
    /\ load_calls <= 1
    /\ detect_calls > 0 => (load_calls = 1 /\ model_loaded)
    /\ (pc \in AssetPcs \cup {"batch_summary"}) => (load_calls = 1 /\ model_loaded)
    /\ (pc = "returned" /\ video_files # <<>>) => load_calls = 1
    /\ video_files = <<>> => load_calls = 0

\* frames of the second asset are detected with the one load of the run
C5_Witness ==
    /\ cur = 2
    /\ Len(results) = 1
    /\ results[1].frame_count = 2
    /\ Len(frame_results) = 1
    /\ detect_calls = 3
    /\ load_calls = 1

\* C6: when load fails, process_batch has returned an error: no asset left
\* Discovered, nothing was detected or written, no outcome and no summary
\* exists.
C6_LoadFailureFatal ==
    (load_calls > 0 /\ ~model_loaded) =>
        /\ pc = "returned"
        /\ ret = ErrReturn("Failed to load ML model")
        /\ \A n \in 1..Len(stage) : stage[n] = "Discovered"
        /\ results = <<>>
        /\ detect_calls = 0
        /\ touched = {}
        /\ frame_files = {}
        /\ summary = NoSummary

\* load failed in a run that had discovered two assets
C6_Witness ==
    /\ load_calls = 1
    /\ ~model_loaded
    /\ Len(video_files) = 2
    /\ ret.kind = "Err"

\* C7: with the input directory missing or unreadable nothing is loaded,
\* no asset is discovered, processed or written to, and process_batch
\* returns no report: once it has gone through discovery it has returned
\* an error.
C7_DiscoveryFailureFatal ==
    input_dir # "ok" =>
        /\ ret.kind # "Ok"
        /\ pc \in {"create_output_dir", "find_video_files", "returned"}
        /\ pc = "returned" => ret.kind = "Err"
        /\ load_calls = 0
        /\ detect_calls = 0
        /\ video_files = <<>>
        /\ results = <<>>
        /\ touched = {}
        /\ summary = NoSummary

\* an unreadable directory that holds a video file made the run fail
C7_Witness ==
    /\ input_dir = "unreadable"
    /\ \E e \in listing : IsVideo(e)
    /\ ret = ErrReturn("read_dir")

\* the step that runs save_results for an asset, and fails to write
SaveFails == pc = "save_results" /\ result_doc'[cur] \in {"partial", "absent"}

\* C8: when save_results fails, the asset's outcome is still the successful
\* one built from the records as synchronized, it is counted as a success,
\* and the loop goes on with the next asset or with the summary.
C8_SaveFailureIsWarning ==
    [][SaveFails =>
          /\ results' = Append(results, SuccessResult(video_files[cur], synchronized))
          /\ Len(synchronized) = Len(timestamps)
          /\ successful' = successful + 1
          /\ failed' = failed
          /\ stage'[cur] = "PersistedSuccess"
          /\ ret' = ret
          /\ IF cur < Len(video_files)
             THEN pc' = "create_dirs" /\ cur' = cur + 1
             ELSE pc' = "batch_summary"]_vars

\* results.json of the first asset could not be created, its outcome is a
\* success with both records, and the second asset is being processed
C8_Witness ==
    /\ Len(results) = 1
    /\ result_doc[1] = "absent"
    /\ results[1].success
    /\ results[1].error_message = None
    /\ results[1].frame_count = 2
    /\ results[1].audio_segments = 1
    /\ pc = "extract_frames"
    /\ cur = 2

\* C9: when the batch summary cannot be written, process_batch still
\* returns the report with every outcome and the counts.
C9_SummaryFailureIsWarning ==
    (pc = "returned" /\ summary.file \in {"partial", "absent"}) =>
        ret = OkReturn(Len(video_files), successful, failed, results)

\* C10: a returned report comes with a complete batch summary, written when
\* every discovered asset is terminal, whose counts are the report's.
C10_SummaryWithReport ==
    ret.kind = "Ok" =>
        /\ summary.file = "complete"
        /\ summary.total = ret.total_videos
        /\ summary.successful = ret.successful
        /\ summary.failed = ret.failed
        /\ \A n \in 1..Len(stage) : stage[n] \in Terminal

(* -------------------- functions called on their own ------------------- *)
\* process_batch is not running
BatchIdle ==
    /\ input_dir = "missing"
    /\ listing = {}
    /\ BatchStart

\* the start of a run that calls one function with one of the given calls
FnInit(calls) ==
    /\ BatchIdle
    /\ call \in calls
    /\ returned = NotReturned

\* the called function returns a value
FnReturn(v) ==
    /\ ~returned.done
    /\ returned' = [done |-> TRUE, val |-> v]
    /\ UNCHANGED << batch_vars, call >>

Range(seq) == { seq[n] : n \in 1..Len(seq) }

(* ----------------------- find_video_files alone ----------------------- *)
\* allow-lists a caller may put into BatchConfig.video_extensions
AllowLists ==
    { video_extensions,
      << <<"M","P","4">> >>,
      << <<"a","v","i">> >> }

DiscoveryCalls ==
    { [fn |-> "find_video_files", exts |-> x, order |-> o] :
        x \in AllowLists, o \in UNION { Orders(L) : L \in Listings } }

\* find_video_files on a readable directory
CallFindVideoFiles ==
    /\ call.fn = "find_video_files"
    /\ FnReturn(found(call.exts, call.order))

DiscoveryInit == FnInit(DiscoveryCalls)
DiscoveryNext == CallFindVideoFiles
DiscoverySpec == DiscoveryInit /\ [][DiscoveryNext]_vars

\* the entry's extension equals some allow-list entry when both are
\* lower-cased
MatchesIgnoringCase(exts, e) ==
    /\ extension(e.name).some
    /\ \E n \in 1..Len(exts) :
          to_lowercase(exts[n]) = to_lowercase(extension(e.name).val)

\* C11: discovery returns exactly the regular files whose extension matches
\* an allow-list entry case-insensitively, whatever the letter case of the
\* extension and of the entry; never a directory or a file without extension.
C11_DiscoveryIgnoresCase ==
    returned.done =>
        Range(returned.val) =
            { e.name : e \in { x \in Range(call.order) :
                                  x.is_file /\ MatchesIgnoringCase(call.exts, x) } }

\* C12: when discovery is done, and still when the report is returned, the
\* assets are the discovered ones in ascending path order, whatever order
\* read_dir yielded and whichever assets failed; the assets are processed in
\* that order and the n-th outcome, also in the report, is the n-th asset's.
C12_OutcomeOrder ==
    /\ (pc = "load_model" \/ ret.kind = "Ok") =>
          /\ \A a, b \in 1..Len(video_files) :
                a < b => PathLess(video_files[a], video_files[b])
          /\ Range(video_files) = { e.name : e \in { x \in listing : IsVideo(x) } }
    /\ pc \in AssetPcs => cur = Len(results) + 1
    /\ \A n \in 1..Len(results) : results[n].video_path = video_files[n]
    /\ ret.kind = "Ok" =>
          /\ Len(ret.results) = Len(video_files)
          /\ \A n \in 1..Len(ret.results) :
                ret.results[n].video_path = video_files[n]

\* a report over b.mp4 and a.mp4 in which a.mp4, the failed one, is first
C12_Witness ==
    /\ ret.kind = "Ok"
    /\ Len(ret.results) = 2
    /\ ret.results[1].video_path = <<"a",".","m","p","4">>
    /\ ~ret.results[1].success
    /\ ret.results[2].video_path = <<"b",".","m","p","4">>
    /\ ret.results[2].success

(* --------------------- synchronize_results alone ---------------------- *)
\* largest number of frames and of spans in one call
MaxSyncFrames == 2
MaxSpans == 2

\* frame timestamps: 5.0 s, 7.5 s and 12.0 s
SyncTimes == {10, 15, 24}

SyncFrameValues ==
    { [timestamp |-> t, objects |-> o] : t \in SyncTimes, o \in { <<>>, << "object" >> } }

\* spans over 0-5 s, 5-10 s, 6-10 s and 0-10 s
SpanValues ==
    { [start_time |-> b[1], end_time |-> b[2], text |-> x] :
        b \in { << 0, 10 >>, << 10, 20 >>, << 12, 20 >>, << 0, 20 >> },
        x \in {"A", "B"} }

SyncCalls ==
    { [fn |-> "synchronize_results", frames |-> f, spans |-> sp] :
        f \in UNION { [1..n -> SyncFrameValues] : n \in 0..MaxSyncFrames },
        sp \in UNION { [1..n -> SpanValues] : n \in 0..MaxSpans } }

CallSynchronize ==
    /\ call.fn = "synchronize_results"
    /\ FnReturn(synchronize_results(call.frames, call.spans))

SyncInit == FnInit(SyncCalls)
SyncNext == CallSynchronize
SyncSpec == SyncInit /\ [][SyncNext]_vars

\* the span holds the timestamp, bounds included
Holds(span, ts) == span.start_time <= ts /\ ts <= span.end_time

Holders(spans, ts) == { m \in 1..Len(spans) : Holds(spans[m], ts) }

\* spans in chronological order that share no instant
SortedDisjoint(spans) ==
    /\ \A m \in 1..Len(spans) : spans[m].start_time <= spans[m].end_time
    /\ \A m \in 1..(Len(spans) - 1) : spans[m].end_time < spans[m + 1].start_time

\* the spans of the scenarios: (0, 5, A), (5, 10, B)
ScenarioSpans ==
    << [start_time |-> 0, end_time |-> 10, text |-> "A"],
       [start_time |-> 10, end_time |-> 20, text |-> "B"] >>

\* C13: for sorted spans that share no instant, every record keeps its
\* frame's timestamp and carries the text of the one span holding the
\* timestamp when there is exactly one, and no transcript otherwise; with
\* spans (0,5,A), (5,10,B) a frame at 7.5 s gets B and one at 12 s nothing.
C13_UniqueSpanText ==
    returned.done =>
        /\ Len(returned.val) = Len(call.frames)
        /\ SortedDisjoint(call.spans) =>
              \A n \in 1..Len(call.frames) :
                 LET ts == call.frames[n].timestamp
                     hs == Holders(call.spans, ts)
                 IN /\ returned.val[n].timestamp = ts
                    /\ IF Cardinality(hs) = 1
                       THEN \A m \in hs :
                               returned.val[n].audio_text = Some(call.spans[m].text)
                       ELSE returned.val[n].audio_text = None
        /\ call.spans = ScenarioSpans =>
              \A n \in 1..Len(call.frames) :
                 /\ call.frames[n].timestamp = 15 =>
                       returned.val[n].audio_text = Some("B")
                 /\ call.frames[n].timestamp = 24 =>
                       returned.val[n].audio_text = None

\* frames at 5.0 s and 7.5 s against the disjoint spans (0,5,A), (6,10,B)
C13_Witness ==
    /\ returned.done
    /\ call.spans = << [start_time |-> 0, end_time |-> 10, text |-> "A"],
                       [start_time |-> 12, end_time |-> 20, text |-> "B"] >>
    /\ Len(call.frames) = 2
    /\ call.frames[1].timestamp = 10
    /\ call.frames[2].timestamp = 15
    /\ returned.val[1].audio_text = Some("A")
    /\ returned.val[2].audio_text = Some("B")

Reorderings(n) ==
    { q \in [1..n -> 1..n] : \A a, b \in 1..n : a # b => q[a] # q[b] }

Permuted(seq, q) == [n \in 1..Len(seq) |-> seq[q[n]]]

\* C14: synchronising a reordered frame list gives the records of the
\* original list in the same reordering, for every reordering and any spans.
C14_FrameOrderInvariant ==
    returned.done =>
        \A q \in Reorderings(Len(call.frames)) :
            synchronize_results(Permuted(call.frames, q), call.spans)
                = Permuted(returned.val, q)

\* two frames in descending time order with different transcripts
C14_Witness ==
    /\ returned.done
    /\ call.spans = ScenarioSpans
    /\ Len(call.frames) = 2
    /\ call.frames[1].timestamp = 24
    /\ call.frames[2].timestamp = 15
    /\ call.frames[1].objects # call.frames[2].objects
    /\ returned.val[1].audio_text = None
    /\ returned.val[2].audio_text = Some("B")

(* ------------------ samples, detections and records ------------------ *)
\* C15: within an asset every frame sample the loop passes is detected
\* exactly once and appended to the frame results, detect is called nowhere
\* else, the loop is left only when every sample has its frame result, and
\* the result of a successful asset carries one record per timestamp the
\* sampler returned, with that timestamp, in the same order.
C15_OneRecordPerSample ==
    [][ /\ (pc = "process_frames" /\ k' = k + 1) =>
              /\ detect_calls' = detect_calls + 1
              /\ frame_results' = Append(frame_results, FrameResultOf(timestamps[k + 1]))
        /\ detect_calls' # detect_calls =>
              /\ pc = "process_frames"
              /\ k < Len(timestamps)
              /\ detect_calls' = detect_calls + 1
        /\ (pc = "process_frames" /\ pc' = "extract_audio") =>
              /\ Len(frame_results) = Len(timestamps)
              /\ k = Len(timestamps)
        /\ (Len(results') = Len(results) + 1 /\ results'[Len(results')].success) =>
              LET recs == results'[Len(results')].synchronized_results
              IN /\ Len(recs) = Len(timestamps)
                 /\ results'[Len(results')].frame_count = Len(timestamps)
                 /\ \A n \in 1..Len(recs) : recs[n].timestamp = timestamps[n]
      ]_vars

\* a run whose only asset succeeded with as many records as samples allowed
C15_Witness ==
    /\ ret.kind = "Ok"
    /\ Len(ret.results) = 1
    /\ ret.results[1].success
    /\ Len(ret.results[1].synchronized_results) = MaxFrames
    /\ detect_calls = MaxFrames

(* ------------------------ extract_frames alone ------------------------ *)
\* largest number of packets in a stream, and largest number of pictures
\* the decoder holds back before it hands out the first one
MaxPackets == 3
MaxDelay == 1

\* a packet of the container: of the video stream or not, with an optional
\* presentation time in ticks of the stream's time base, accepted or
\* rejected by the decoder
PacketValues ==
    { [video |-> FALSE, pts |-> None, bad |-> FALSE] } \cup
    { [video |-> TRUE, pts |-> t, bad |-> b] :
        t \in { None, Some(1), Some(2) }, b \in BOOLEAN }

\* io_fail = n > 0: scaling or writing the n-th picture fails
ExtractCalls ==
    { [fn |-> "extract_frames", packets |-> ps, delay |-> d,
       time_base |-> tb, io_fail |-> f] :
        ps \in UNION { [1..n -> PacketValues] : n \in 0..MaxPackets },
        d \in 0..MaxDelay, tb \in {1, 2}, f \in 0..MaxPackets }

\* packet.pts().unwrap_or(0) * time_base
timestamp_of(packet, time_base) ==
    (IF packet.pts.some THEN packet.pts.val ELSE 0) * time_base

\* the loop over ictx.packets() from packet n on: sent counts the packets
\* the decoder accepted, frame_index the files written
RECURSIVE packets_loop(_, _, _, _, _)
packets_loop(c, n, sent, ts, frame_index) ==
    IF n > Len(c.packets)
    THEN [ok |-> TRUE, timestamps |-> ts, frame_index |-> frame_index]
    ELSE LET packet == c.packets[n]
         IN IF ~packet.video
            THEN packets_loop(c, n + 1, sent, ts, frame_index)
            ELSE IF packet.bad
            THEN [ok |-> FALSE, timestamps |-> <<>>, frame_index |-> frame_index]
            ELSE IF sent + 1 <= c.delay
            THEN packets_loop(c, n + 1, sent + 1, ts, frame_index)
            ELSE IF frame_index + 1 = c.io_fail
            THEN [ok |-> FALSE, timestamps |-> <<>>, frame_index |-> frame_index]
            ELSE packets_loop(c, n + 1, sent + 1,
                              Append(ts, timestamp_of(packet, c.time_base)),
                              frame_index + 1)

extract_frames(c) == packets_loop(c, 1, 0, <<>>, 0)

CallExtractFrames ==
    /\ call.fn = "extract_frames"
    /\ FnReturn(extract_frames(call))

ExtractInit == FnInit(ExtractCalls)
ExtractNext == CallExtractFrames
ExtractSpec == ExtractInit /\ [][ExtractNext]_vars

\* the video packets of the stream the decoder accepts, in stream order
GoodVideo(packets) == SelectSeq(packets, LAMBDA p : p.video /\ ~p.bad)

BadVideo(packets) == SelectSeq(packets, LAMBDA p : p.video /\ p.bad)

\* C16: the timestamps of a successful extraction never decrease, and the
\* files written are frame 0, 1, .. one per timestamp, so that the i-th
\* timestamp belongs to frame file i.
C16_TimestampsAscendFilesIndexed ==
    (returned.done /\ returned.val.ok) =>
        /\ \A a, b \in 1..Len(returned.val.timestamps) :
              a < b => returned.val.timestamps[a] <= returned.val.timestamps[b]
        /\ returned.val.frame_index = Len(returned.val.timestamps)

\* C17: a successful extraction returns one timestamp and writes one frame
\* for every picture the decoder produces for the stream, that is one per
\* video packet it accepted.
C17_EveryPictureSampled ==
    (returned.done /\ returned.val.ok) =>
        /\ Len(returned.val.timestamps) = Len(GoodVideo(call.packets))
        /\ returned.val.frame_index = Len(GoodVideo(call.packets))

\* C18: when the decoder rejects exactly one packet and nothing else goes
\* wrong, the extraction still succeeds and samples the pictures of the
\* packets the decoder accepted, those after the rejected one included.
C18_RejectedPacketSkipped ==
    (returned.done /\ Len(BadVideo(call.packets)) = 1 /\ call.io_fail = 0
                   /\ call.delay = 0) =>
        /\ returned.val.ok
        /\ Len(returned.val.timestamps) = Len(GoodVideo(call.packets))

(* -------------------------- backend selection ------------------------- *)
\* backend names a caller may pass
BackendNames ==
    { << "m", "o", "c", "k" >>, << "M", "O", "C", "K" >>, << "M", "o", "c", "k" >>,
      << "o", "n", "n", "x" >>, << "O", "N", "N", "X" >>, << "O", "n", "n", "x" >>,
      << "c", "a", "n", "d", "l", "e" >>, << "C", "a", "n", "d", "l", "e" >>,
      << "p", "y", "t", "o", "r", "c", "h" >>, << "P", "y", "T", "o", "r", "c", "h" >>,
      << "f", "o", "o" >>, << >> }

\* the cargo features a build may enable
FeatureSets == SUBSET {"pytorch", "onnx", "candle"}

Ok(v) == [ok |-> TRUE, val |-> v]
Err(e) == [ok |-> FALSE, val |-> e]

\* create_ml_backend under a plausible slip: an unknown name is an error
create_ml_backend_strict(backend_type, features) ==
    LET name == to_lowercase(backend_type)
    IN IF name = << "m", "o", "c", "k" >>
       THEN Ok([variant |-> "MockMLBackend", warning |-> FALSE])
       ELSE IF name = << "p", "y", "t", "o", "r", "c", "h" >> /\ "pytorch" \in features
       THEN Ok([variant |-> "PyTorchBackend", warning |-> FALSE])
       ELSE IF name = << "o", "n", "n", "x" >> /\ "onnx" \in features
       THEN Ok([variant |-> "ONNXBackend", warning |-> FALSE])
       ELSE IF name = << "c", "a", "n", "d", "l", "e" >> /\ "candle" \in features
       THEN Ok([variant |-> "CandleBackend", warning |-> FALSE])
       ELSE Err("Unknown ML backend")

\* create_ml_backend: the match on the lower-cased name, whose arms for
\* pytorch, onnx and candle exist only in a build with the feature
create_ml_backend(backend_type, features) ==
    LET name == to_lowercase(backend_type)
    IN IF name = << "m", "o", "c", "k" >>
       THEN Ok([variant |-> "MockMLBackend", warning |-> FALSE])
       ELSE IF name = << "p", "y", "t", "o", "r", "c", "h" >> /\ "pytorch" \in features
       THEN Ok([variant |-> "PyTorchBackend", warning |-> FALSE])
       ELSE IF name = << "o", "n", "n", "x" >> /\ "onnx" \in features
       THEN Ok([variant |-> "ONNXBackend", warning |-> FALSE])
       ELSE IF name = << "c", "a", "n", "d", "l", "e" >> /\ "candle" \in features
       THEN Ok([variant |-> "CandleBackend", warning |-> FALSE])
       ELSE Ok([variant |-> "MockMLBackend", warning |-> TRUE])

\* FrameAnalyzer::new: create_ml_backend(backend_type)?
FrameAnalyzer_new(backend_type, features) ==
    LET backend == create_ml_backend(backend_type, features)
    IN IF backend.ok THEN Ok([backend |-> backend.val.variant]) ELSE backend

\* the analyzer process_batch builds and the path it loads: "mock" and None,
\* whatever the caller wished for
batch_analyzer(features) ==
    LET analyzer == FrameAnalyzer_new(<< "m", "o", "c", "k" >>, features)
    IN IF analyzer.ok
       THEN Ok([variant |-> analyzer.val.backend, model_path |-> None])
       ELSE analyzer

ModelPaths == { None, Some("model.onnx") }

\* calls of the factory and of the analyzer's constructor, and batch runs by
\* a caller who wants backend and model_path used
BackendCalls ==
    { [fn |-> f, backend_type |-> b, features |-> fs] :
        f \in {"create_ml_backend", "FrameAnalyzer::new"},
        b \in BackendNames, fs \in FeatureSets } \cup
    { [fn |-> "process_batch", backend |-> b, model_path |-> mp, features |-> fs] :
        b \in BackendNames, mp \in ModelPaths, fs \in FeatureSets }

CallCreateMlBackend ==
    /\ call.fn = "create_ml_backend"
    /\ FnReturn(create_ml_backend(call.backend_type, call.features))

CallFrameAnalyzerNew ==
    /\ call.fn = "FrameAnalyzer::new"
    /\ FnReturn(FrameAnalyzer_new(call.backend_type, call.features))

CallBatchAnalyzer ==
    /\ call.fn = "process_batch"
    /\ FnReturn(batch_analyzer(call.features))

BackendInit == FnInit(BackendCalls)
BackendNext == CallCreateMlBackend \/ CallFrameAnalyzerNew \/ CallBatchAnalyzer
BackendSpec == BackendInit /\ [][BackendNext]_vars

\* the names of the backend variants, in lower case
RecognizedNames ==
    { << "m", "o", "c", "k" >>, << "p", "y", "t", "o", "r", "c", "h" >>,
      << "o", "n", "n", "x" >>, << "c", "a", "n", "d", "l", "e" >> }

VariantOf(r) == IF call.fn = "create_ml_backend" THEN r.val.variant ELSE r.val.backend

\* C19: the factory and the analyzer's constructor return a backend for
\* every name and every build, and the mock backend for every name that,
\* ignoring case, is not the name of a variant.
C19_SelectionNeverFails ==
    (returned.done /\ call.fn \in {"create_ml_backend", "FrameAnalyzer::new"}) =>
        /\ returned.val.ok
        /\ to_lowercase(call.backend_type) \notin RecognizedNames =>
              VariantOf(returned.val) = "MockMLBackend"

\* the factory was asked for "foo" in a build with every feature
C19_Witness ==
    /\ returned.done
    /\ call.fn = "create_ml_backend"
    /\ call.backend_type = << "f", "o", "o" >>
    /\ call.features = {"pytorch", "onnx", "candle"}
    /\ returned.val = Ok([variant |-> "MockMLBackend", warning |-> TRUE])

\* C20: a batch run uses the variant the factory gives for the backend name
\* the caller supplied, and loads it with the model path the caller supplied.
C20_CallerChoosesBackend ==
    (returned.done /\ call.fn = "process_batch") =>
        /\ returned.val.ok
        /\ returned.val.val.variant =
              create_ml_backend(call.backend, call.features).val.variant
        /\ returned.val.val.model_path = call.model_path

(* ----------------------------- exit status ---------------------------- *)
\* main returns what run_batch_processing returns, which is Err exactly
\* when process_batch returned Err; the runtime turns Err into exit code 1
exit_code(result) == IF result.kind = "Err" THEN 1 ELSE 0

\* a fatal class occurred: discovery failed or the backend failed to load
FatalClassOccurred ==
    \/ load_calls > 0 /\ ~model_loaded
    \/ ret.kind = "Err" /\ ret.error \in {"Input directory does not exist", "read_dir"}

\* C21: once the batch command has finished, its exit code is non-zero
\* exactly when discovery or the model load failed; in particular a run in
\* which assets failed on their own exits zero.
C21_ExitNonZeroIffFatal ==
    pc = "returned" => (exit_code(ret) # 0 <=> FatalClassOccurred)

(* -------------------------- save_results alone ------------------------ *)
\* longest label or transcript text, and longest record list
MaxText == 2
MaxRecords == 2

Quote == "\""
Backslash == "\\"
LineBreak == "\n"

\* the characters of labels and texts: a plain letter, '"', '\' and a
\* line break
TextChars == { "n", Quote, Backslash, LineBreak }

Texts == UNION { [1..n -> TextChars] : n \in 0..MaxText }

\* records with a timestamp of 5.0 s or 7.5 s, at most one detection and
\* an optional transcript
RecordValues ==
    { [timestamp |-> t, video_objects |-> o, audio_text |-> a] :
        t \in {10, 15},
        o \in { <<>> } \cup { << [label |-> l] >> : l \in Texts },
        a \in { None } \cup { Some(x) : x \in Texts } }

PlainRecord == [timestamp |-> 10, video_objects |-> <<>>, audio_text |-> None]

\* record lists: empty, or any record followed by plain ones
SaveCalls ==
    { [fn |-> "save_results", recs |-> <<>>] } \cup
    { [fn |-> "save_results",
       recs |-> [i \in 1..n |-> IF i = 1 THEN r ELSE PlainRecord]] :
        r \in RecordValues, n \in 1..MaxRecords }

\* Display of a non-negative integer below 100
digits(n) ==
    LET d(i) == << "0", "1", "2", "3", "4", "5", "6", "7", "8", "9" >>[i + 1]
    IN IF n < 10 THEN << d(n) >> ELSE << d(n \div 10), d(n % 10) >>

\* "{}" of an f64 holding t half seconds: 5 for 5.0, 7.5 for 7.5
display_f64(t) ==
    digits(t \div 2) \o (IF t % 2 = 1 THEN << ".", "5" >> ELSE <<>>)

\* text.replace('"', "\\\""): a backslash before every '"', nothing else
RECURSIVE escape_quotes(_)
escape_quotes(text) ==
    IF text = <<>> THEN <<>>
    ELSE (IF Head(text) = Quote THEN << Backslash, Quote >> ELSE << Head(text) >>)
         \o escape_quotes(Tail(text))

\* "\"{}\"" around the characters given
quoted(chars) == << Quote >> \o chars \o << Quote >>

\* the values save_results writes for one record, each as the characters
\* it puts in the file: the label goes out as it is
written_record(r) ==
    [timestamp |-> display_f64(r.timestamp),
     video_objects |-> [j \in 1..Len(r.video_objects) |->
                          [label |-> quoted(r.video_objects[j].label)]],
     audio_text |-> IF r.audio_text.some
                    THEN quoted(escape_quotes(r.audio_text.val))
                    ELSE << "n", "u", "l", "l" >>]

\* save_results with every write succeeding: the array of written records
save_results(recs) == [i \in 1..Len(recs) |-> written_record(recs[i])]

CallSaveResults ==
    /\ call.fn = "save_results"
    /\ FnReturn(save_results(call.recs))

SaveInit == FnInit(SaveCalls)
SaveNext == CallSaveResults
SaveSpec == SaveInit /\ [][SaveNext]_vars

\* a JSON reader's view of a string token from position i on, acc being
\* the characters decoded so far: '"' ends the string and must end the
\* token, '\' starts an escape, a raw line break is not allowed
RECURSIVE read_string_from(_, _, _)
read_string_from(tok, i, acc) ==
    IF i > Len(tok) THEN Err("unterminated string")
    ELSE IF tok[i] = Quote
    THEN IF i = Len(tok) THEN Ok(acc) ELSE Err("characters after string")
    ELSE IF tok[i] = LineBreak THEN Err("control character in string")
    ELSE IF tok[i] = Backslash
    THEN IF i = Len(tok) THEN Err("unterminated string")
         ELSE IF tok[i + 1] = Quote
         THEN read_string_from(tok, i + 2, Append(acc, Quote))
         ELSE IF tok[i + 1] = Backslash
         THEN read_string_from(tok, i + 2, Append(acc, Backslash))
         ELSE IF tok[i + 1] = "n"
         THEN read_string_from(tok, i + 2, Append(acc, LineBreak))
         ELSE Err("invalid escape")
    ELSE read_string_from(tok, i + 1, Append(acc, tok[i]))

read_string(tok) ==
    IF tok = <<>> \/ Head(tok) # Quote THEN Err("expected string")
    ELSE read_string_from(tok, 2, <<>>)

\* a string or null
read_optional_string(tok) ==
    IF tok = << "n", "u", "l", "l" >> THEN Ok(None)
    ELSE LET str == read_string(tok)
         IN IF str.ok THEN Ok(Some(str.val)) ELSE str

\* a number token, as half seconds
read_number(tok) ==
    LET whole == { n \in 0..99 : digits(n) = tok }
        half == { n \in 0..99 : digits(n) \o << ".", "5" >> = tok }
    IN IF whole # {} THEN Ok(2 * (CHOOSE n \in whole : TRUE))
       ELSE IF half # {} THEN Ok(2 * (CHOOSE n \in half : TRUE) + 1)
       ELSE Err("expected number")

read_record(w) ==
    LET ts == read_number(w.timestamp)
        labels == [j \in 1..Len(w.video_objects) |-> read_string(w.video_objects[j].label)]
        text == read_optional_string(w.audio_text)
    IN IF ts.ok /\ text.ok /\ \A j \in 1..Len(labels) : labels[j].ok
       THEN Ok([timestamp |-> ts.val,
                video_objects |-> [j \in 1..Len(labels) |-> [label |-> labels[j].val]],
                audio_text |-> text.val])
       ELSE Err("malformed record")

read_document(doc) ==
    LET read == [i \in 1..Len(doc) |-> read_record(doc[i])]
    IN IF \A i \in 1..Len(doc) : read[i].ok
       THEN Ok([i \in 1..Len(doc) |-> read[i].val])
       ELSE Err("malformed document")

\* C22: reading back the document save_results wrote for a record list
\* succeeds and gives the same list, field by field, whatever characters
\* the labels and texts hold; an absent text reads back absent and a
\* present one present.
C22_DocumentRoundTrip ==
    returned.done =>
        LET read == read_document(returned.val)
        IN read.ok /\ read.val = call.recs

(* ------------------------------ main alone ---------------------------- *)
\* largest number of arguments after the program name
MaxArgs == 3

ArgWords == { "batch", "single", "--config", "help" }

\* env::args(): the program name, then the arguments
MainCalls ==
    { [fn |-> "main", args |-> << "program" >> \o a] :
        a \in UNION { [1..n -> ArgWords] : n \in 0..MaxArgs } }

\* main: which mode it runs, and whether it prints show_batch_config
main(args) ==
    IF Len(args) > 1 /\ args[2] = "batch"
    THEN [ran |-> "run_batch_processing", usage |-> FALSE, show_batch_config |-> FALSE]
    ELSE IF Len(args) > 1 /\ args[2] = "single"
    THEN [ran |-> "run_single_video_processing", usage |-> FALSE,
          show_batch_config |-> FALSE]
    ELSE [ran |-> "nothing", usage |-> TRUE,
          show_batch_config |-> (Len(args) > 2 /\ args[3] = "--config")]

CallMain ==
    /\ call.fn = "main"
    /\ FnReturn(main(call.args))

MainInit == FnInit(MainCalls)
MainNext == CallMain
MainSpec == MainInit /\ [][MainNext]_vars

\* C23: started with the arguments batch --config, the program prints the
\* directory-convention help text and runs no batch.
C23_BatchConfigPrintsHelp ==
    (returned.done /\ Len(call.args) > 2
                   /\ call.args[2] = "batch" /\ call.args[3] = "--config") =>
        /\ returned.val.show_batch_config
        /\ returned.val.ran # "run_batch_processing"

(* ------------------------- spans that overlap ------------------------- *)
\* C24: for any span list, a record whose timestamp lies in one span or in
\* several carries the text of the first such span in the order given, and
\* a record whose timestamp lies in none carries no text; with spans
\* (0,5,A), (5,10,B) a frame at 5 s gets A.
C24_FirstSpanWins ==
    returned.done =>
        /\ \A n \in 1..Len(call.frames) :
              LET hs == Holders(call.spans, call.frames[n].timestamp)
              IN IF hs = {}
                 THEN returned.val[n].audio_text = None
                 ELSE \E m \in hs :
                         /\ \A other \in hs : m <= other
                         /\ returned.val[n].audio_text = Some(call.spans[m].text)
        /\ call.spans = ScenarioSpans =>
              \A n \in 1..Len(call.frames) :
                 call.frames[n].timestamp = 10 => returned.val[n].audio_text = Some("A")

\* a frame at 5 s on the shared boundary of (0,5,A) and (5,10,B)
C24_Witness ==
    /\ returned.done
    /\ call.spans = ScenarioSpans
    /\ Len(call.frames) = 1
    /\ call.frames[1].timestamp = 10
    /\ Cardinality(Holders(call.spans, 10)) = 2
    /\ returned.val[1].audio_text = Some("A")

(* ----------------------------- the outcomes --------------------------- *)
\* the outcome appended last (every outcome is the last one when it is
\* appended) and, once a report is returned, all the outcomes in it
AllOutcomes ==
    IF ret.kind = "Ok" THEN { ret.results[n] : n \in 1..Len(ret.results) }
    ELSE IF results = <<>> THEN {}
    ELSE { results[Len(results)] }

\* the records of a list that carry a transcript
WithText(recs) == { n \in 1..Len(recs) : recs[n].audio_text # None }

\* C25: in every successful outcome frame_count is the number of its
\* records and audio_segments the number of its records with a transcript,
\* hence audio_segments <= frame_count.
C25_SuccessCounts ==
    \A o \in AllOutcomes :
        o.success =>
            /\ o.frame_count = Len(o.synchronized_results)
            /\ o.audio_segments = Cardinality(WithText(o.synchronized_results))
            /\ o.audio_segments <= o.frame_count

\* a reported success with two records of which one has a transcript
C25_Witness ==
    /\ ret.kind = "Ok"
    /\ \E n \in 1..Len(ret.results) :
          /\ ret.results[n].success
          /\ ret.results[n].frame_count = 2
          /\ ret.results[n].audio_segments = 1

\* C26: every outcome is a success exactly when it has no error message;
\* a failed outcome has frame_count 0, audio_segments 0 and no records, and
\* the run has written no result document for its asset.
C26_OutcomeShape ==
    /\ \A o \in AllOutcomes :
          /\ o.success <=> o.error_message = None
          /\ ~o.success =>
                /\ o.frame_count = 0
                /\ o.audio_segments = 0
                /\ o.synchronized_results = <<>>
    /\ \A n \in 1..Len(results) :
          (~results[n].success /\ (n = Len(results) \/ pc = "returned")) =>
                /\ result_doc[n] = "none"
                /\ << n, results_file(video_files[n]) >> \notin touched

\* Scenario B: a report over two assets, one failed at frame extraction
\* and one successful with frames
C26_Witness ==
    /\ ret.kind = "Ok"
    /\ Len(ret.results) = 2
    /\ \E a, b \in 1..2 :
          /\ ~ret.results[a].success
          /\ ret.results[a].error_message = Some("Frame extraction failed")
          /\ ret.results[b].success
          /\ ret.results[b].frame_count > 0

(* ------------------------------ progress ------------------------------ *)
\* process_batch is sequential code: when every call it makes returns, it
\* always takes its next step
LiveSpec == Spec /\ WF_vars(Next)

\* outcomes are only ever appended, and a returned report stays as it is
OutcomesKept ==
    [][ /\ Len(results') >= Len(results)
        /\ \A n \in 1..Len(results) : results'[n] = results[n]
        /\ ret.kind = "Ok" => ret' = ret ]_vars

\* every discovered asset has reached Persisted(Success) or
\* Persisted(Failed); both are stages an asset never leaves
AllPersisted == \A n \in 1..Len(stage) : stage[n] \in Terminal

\* C27 as stated: process_batch eventually returns and by then every
\* discovered asset has reached Persisted(Success) or Persisted(Failed);
\* an outcome once appended is never changed or removed.
C27_EveryAssetFinishes ==
    /\ OutcomesKept
    /\ <>(pc = "returned" /\ AllPersisted)

\* C27, amended: process_batch eventually returns, and by then every
\* discovered asset of a run whose model load succeeded has reached
\* Persisted(Success) or Persisted(Failed), while in a run whose load failed
\* every asset is still Discovered; an outcome once appended is never
\* changed or removed.
C27_AssetsFinishOnceLoaded ==
    /\ OutcomesKept
    /\ <>(/\ pc = "returned"
          /\ model_loaded => AllPersisted
          /\ (load_calls > 0 /\ ~model_loaded) =>
                \A n \in 1..Len(stage) : stage[n] = "Discovered")

\* a run over two assets has returned with both of them persisted
C27_Witness ==
    /\ pc = "returned"
    /\ model_loaded
    /\ Len(stage) = 2
    /\ stage[1] = "PersistedFailed"
    /\ stage[2] = "PersistedSuccess"
    /\ Len(results) = 2

====
